---- MODULE Spec2Model ----
(***************************************************************************)
(* Paper-trading ledger: the trading engine (app/engine.py) and the        *)
(* benchmark tracker (app/benchmark.py) over the ledger store reached      *)
(* through one SQLModel session; the momentum screener (app/screener.py)   *)
(* and max_drawdown (app/compare.py, app/ui.py) as functions of their      *)
(* input.                                                                  *)
(*                                                                         *)
(* Python floats are modelled as exact rationals [n, d] in lowest terms    *)
(* with d > 0; quantities are whole numbers of shares (any sign, the       *)
(* engine validates none).  sess is what the open session sees (its        *)
(* identity map and flushed, uncommitted rows); db is what is committed.   *)
(* arg is the argument a pure function (screener, drawdown) is applied to. *)
(***************************************************************************)
EXTENDS Integers, Sequences, FiniteSets, TLC

VARIABLES sess, db, today, ret, torn, arg

vars == <<sess, db, today, ret, torn, arg>>

-----------------------------------------------------------------------------
(* Bounds of the model *)

MaxTrades == 2
MaxTorn == 1
MaxMarks == 3
MaxDay == 1
MaxDailyMarks == 2
MaxSessions == 64
MaxSymbols == 3
MaxTopN == 3
MaxPoints == 3

(* Program constants: app/config.py *)
slippage_bps == 10
BpsDenominator == 10000
CommissionNum == 50
CommissionDen == 100
default_cash == 5000

(* Program constants: app/screener.py *)
MinSessions == 60
Lookback1m == 21
Lookback3m == 63
SmaWindow == 50

-----------------------------------------------------------------------------
(* float arithmetic, exact *)

Abs(x) == IF x < 0 THEN -x ELSE x

RECURSIVE GCD(_, _)
GCD(a, b) == IF b = 0 THEN a ELSE GCD(b, a % b)

Rat(n, d) ==
    LET g == GCD(Abs(n), Abs(d))
        s == IF d < 0 THEN -1 ELSE 1
    IN  [n |-> (s * n) \div g, d |-> (s * d) \div g]

Float(k) == [n |-> k, d |-> 1]

RAdd(a, b) == Rat(a.n * b.d + b.n * a.d, a.d * b.d)
RSub(a, b) == Rat(a.n * b.d - b.n * a.d, a.d * b.d)
RMul(a, b) == Rat(a.n * b.n, a.d * b.d)
RDiv(a, b) == Rat(a.n * b.d, a.d * b.n)
RLt(a, b) == a.n * b.d < b.n * a.d

-----------------------------------------------------------------------------
(* Inputs *)

Names == {"core"}
Symbols == {"AAA"}
Sides == {"buy", "SELL", "HOLD"}
Qtys == {-1, 1, 10}
(* last_price raising "No price data": no float has denominator 0 *)
NoQuote == [n |-> 1, d |-> 0]
Quotes == {Float(50), Float(100)}
None == [n |-> 0, d |-> 0]
CashArgs == {None, Float(150)}

settings ==
    [slippage_bps |-> Float(slippage_bps),
     commistion_per_trade |-> Rat(CommissionNum, CommissionDen),
     default_cash |-> Float(default_cash)]

-----------------------------------------------------------------------------
(* Sequence helpers: tables are sequences of rows in rowid order *)

Min(S) == CHOOSE i \in S : \A j \in S : i <= j

RemoveAt(rows, i) == SubSeq(rows, 1, i - 1) \o SubSeq(rows, i + 1, Len(rows))

upper(side) ==
    CASE side = "buy" -> "BUY"
      [] side = "sell" -> "SELL"
      [] OTHER -> side

-----------------------------------------------------------------------------
(* The ledger store *)

EmptyStore ==
    [accounts |-> <<>>, lots |-> <<>>, trades |-> <<>>, dmarks |-> <<>>,
     bmarks |-> <<>>]

(* What the last call did: the function, how it ended ("ok" or the error *)
(* raised) and the row it returned, if any.                              *)
Return(op, result, rows) == [op |-> op, result |-> result, value |-> rows]

Init ==
    /\ sess = EmptyStore
    /\ db = EmptyStore
    /\ today = 0
    /\ ret = Return("none", "none", <<>>)
    /\ torn = 0
    /\ arg = <<>>

(* select(Account).where(Account.name == name) .first(): row index or 0 *)
AccountByName(s, name) ==
    LET hits == {i \in 1..Len(s.accounts) : s.accounts[i].name = name}
    IN  IF hits = {} THEN 0 ELSE Min(hits)

(* select(PositionLot).where(account_id == id, symbol == symbol).first() *)
LotOf(s, id, symbol) ==
    LET hits == {i \in 1..Len(s.lots) :
                    s.lots[i].account_id = id /\ s.lots[i].symbol = symbol}
    IN  IF hits = {} THEN 0 ELSE Min(hits)

-----------------------------------------------------------------------------
(* engine.py *)

(* slippage added on both sides *)
SlippageAlwaysAdded(price, side, bps) ==
    RAdd(price, RMul(price, RDiv(bps, Float(BpsDenominator))))

_apply_slippage(price, side, bps) ==
    LET slip == RMul(price, RDiv(bps, Float(BpsDenominator)))
    IN  IF upper(side) = "BUY" THEN RAdd(price, slip) ELSE RSub(price, slip)

NewAccount(s, name, cash) ==
    [id |-> Len(s.accounts) + 1,
     name |-> name,
     cash |-> IF cash # None THEN cash ELSE settings.default_cash]

(* an upsert: the existing account takes the cash passed *)
EnsureStoreResetsCash(s, name, cash) ==
    IF AccountByName(s, name) # 0
    THEN [s EXCEPT !.accounts[AccountByName(s, name)].cash =
                      IF cash # None THEN cash ELSE settings.default_cash]
    ELSE [s EXCEPT !.accounts = Append(@, NewAccount(s, name, cash))]

(* lines 16-23: the session after the lookup-or-create *)
EnsureStore(s, name, cash) ==
    IF AccountByName(s, name) # 0
    THEN s
    ELSE [s EXCEPT !.accounts = Append(@, NewAccount(s, name, cash))]

ensure_account(name, cash) ==
    /\ sess' = EnsureStore(sess, name, cash)
    /\ IF AccountByName(sess, name) # 0
       THEN UNCHANGED <<db, torn>>
       ELSE db' = sess' /\ torn' = 0
    /\ ret' = Return("ensure_account", "ok",
                     <<sess'.accounts[AccountByName(sess', name)]>>)
    /\ UNCHANGED <<today, arg>>

Trade(acct, symbol, side, qty, px, fill, commission) ==
    [account_id |-> acct.id, symbol |-> symbol, side |-> side, qty |-> qty,
     requested_price |-> px, fill_price |-> fill, commission |-> commission,
     slippage_bps |-> settings.slippage_bps]

(* session.add(tr); session.add(acct); session.commit() *)
Filled(s, tr) == [result |-> "ok", store |-> [s EXCEPT !.trades = Append(@, tr)]]

Raised(s, error) == [result |-> error, store |-> s]

(* the merged lot keeps its old average cost *)
MergeLotKeepsCost(s, a, symbol, qty, fill) ==
    LET i == LotOf(s, s.accounts[a].id, symbol)
    IN  IF i # 0
        THEN IF s.lots[i].qty + qty = 0
             THEN Raised(s, "ZeroDivisionError")
             ELSE [result |-> "ok", store |-> [s EXCEPT !.lots[i].qty = @ + qty]]
        ELSE [result |-> "ok",
              store |-> [s EXCEPT !.lots = Append(@,
                            [account_id |-> s.accounts[a].id, symbol |-> symbol,
                             qty |-> qty, avg_cost |-> fill])]]

(* lines 55-63: merge into the open lot, or add a new one *)
MergeLot(s, a, symbol, qty, fill) ==
    LET i == LotOf(s, s.accounts[a].id, symbol)
        lot == s.lots[i]
        new_qty == lot.qty + qty
        avg_cost == RDiv(RAdd(RMul(lot.avg_cost, Float(lot.qty)), RMul(fill, Float(qty))),
                         Float(new_qty))
    IN  IF i # 0
        THEN IF new_qty = 0
             THEN Raised(s, "ZeroDivisionError")
             ELSE [result |-> "ok",
                   store |-> [s EXCEPT !.lots[i].avg_cost = avg_cost,
                                       !.lots[i].qty = new_qty]]
        ELSE [result |-> "ok",
              store |-> [s EXCEPT !.lots = Append(@,
                            [account_id |-> s.accounts[a].id, symbol |-> symbol,
                             qty |-> qty, avg_cost |-> fill])]]

(* the cash check left out *)
BuyUnchecked(s, a, symbol, qty, fill, commission) ==
    MergeLot([s EXCEPT !.accounts[a].cash =
                  RSub(@, RAdd(RMul(fill, Float(qty)), commission))],
             a, symbol, qty, fill)

(* lines 42-63 *)
Buy(s, a, symbol, qty, fill, commission) ==
    LET cost == RMul(fill, Float(qty))
        total == RAdd(cost, commission)
        debited == [s EXCEPT !.accounts[a].cash = RSub(@, total)]
    IN  IF RLt(s.accounts[a].cash, total)
        THEN Raised(s, "InsufficientFunds")
        ELSE MergeLot(debited, a, symbol, qty, fill)

(* the emptied lot kept *)
ReduceLotKeepsEmpty(s, i, qty) == [s EXCEPT !.lots[i].qty = @ - qty]

(* lines 74-76: lot.qty -= qty; delete the lot at zero *)
ReduceLot(s, i, qty) ==
    LET reduced == [s EXCEPT !.lots[i].qty = @ - qty]
    IN  IF reduced.lots[i].qty = 0
        THEN [s EXCEPT !.lots = RemoveAt(@, i)]
        ELSE reduced

(* lines 64-76 *)
Sell(s, a, symbol, qty, fill, commission) ==
    LET i == LotOf(s, s.accounts[a].id, symbol)
        cost == RMul(fill, Float(qty))
        proceeds == RSub(cost, commission)
        credited == [s EXCEPT !.accounts[a].cash = RAdd(@, proceeds)]
    IN  IF i = 0 \/ s.lots[i].qty < qty
        THEN Raised(s, "InsufficientShares")
        ELSE [result |-> "ok", store |-> ReduceLot(credited, i, qty)]

(* The whole call on session state s with quote px: its result and the     *)
(* session state it leaves (an exception leaves what was already mutated). *)
OrderOutcome(s, account_name, symbol, side, qty, px) ==
    LET a == AccountByName(s, account_name)
        fill == _apply_slippage(px, side, settings.slippage_bps)
        commission == settings.commistion_per_trade
        SIDE == upper(side)
        done == CASE SIDE = "BUY" -> Buy(s, a, symbol, qty, fill, commission)
                  [] SIDE = "SELL" -> Sell(s, a, symbol, qty, fill, commission)
                  [] OTHER -> Raised(s, "InvalidSide")
    IN  IF a = 0 THEN Raised(s, "NotFound")
        ELSE IF px = NoQuote THEN Raised(s, "NoPriceData")
        ELSE IF done.result # "ok" THEN done
        ELSE Filled(done.store,
                    Trade(s.accounts[a], symbol, SIDE, qty, px, fill, commission))

place_market_order(account_name, symbol, side, qty, px) ==
    \E out \in {OrderOutcome(sess, account_name, symbol, side, qty, px)} :
        /\ out.result = "ok" => Len(sess.trades) < MaxTrades
        /\ ret' = Return("place_market_order", out.result,
                         IF out.result = "ok"
                         THEN <<out.store.trades[Len(out.store.trades)]>> ELSE <<>>)
        /\ sess' = out.store
        /\ IF out.result = "ok"
           THEN db' = sess' /\ torn' = 0
           ELSE /\ out.store # sess => torn < MaxTorn
                /\ torn' = IF out.store # sess THEN torn + 1 ELSE torn
                /\ UNCHANGED db
        /\ UNCHANGED <<today, arg>>

(* Valuation inputs: last_price per symbol at the time of the mark *)
MarkSymbols == {"AAA", "BBB"}
MarkQuotes == [MarkSymbols -> {Float(50), NoQuote}]

(* select(PositionLot).where(account_id == acct.id).all(), as row indexes *)
LotsOf(s, id) == {i \in 1..Len(s.lots) : s.lots[i].account_id = id}

(* the loop of compute_equity over rows 1..i: positions_value *)
RECURSIVE positions_value(_, _, _, _)
positions_value(s, id, quote, i) ==
    IF i = 0 THEN Float(0)
    ELSE IF i \in LotsOf(s, id)
    THEN RAdd(positions_value(s, id, quote, i - 1),
              RMul(Float(s.lots[i].qty), quote[s.lots[i].symbol]))
    ELSE positions_value(s, id, quote, i - 1)

compute_equity(s, account_name, quote) ==
    LET a == AccountByName(s, account_name)
        acct == s.accounts[a]
    IN  IF a = 0 THEN [result |-> "NotFound", value |-> None]
        ELSE IF \E i \in LotsOf(s, acct.id) : quote[s.lots[i].symbol] = NoQuote
        THEN [result |-> "NoPriceData", value |-> None]
        ELSE [result |-> "ok",
              value |-> RAdd(acct.cash, positions_value(s, acct.id, quote, Len(s.lots)))]

DailyMark(account_id, day, equity, cash) ==
    [account_id |-> account_id, marked_on |-> day, equity |-> equity, cash |-> cash]

(* an upsert: the day's mark of the account is replaced *)
MarkToMarketUpsert(s, account_name, quote, day) ==
    LET a == AccountByName(s, account_name)
        equity == compute_equity(s, account_name, quote)
        mark == DailyMark(s.accounts[a].id, day, equity.value, s.accounts[a].cash)
        old == {i \in 1..Len(s.dmarks) :
                    s.dmarks[i].account_id = mark.account_id
                    /\ s.dmarks[i].marked_on = day}
    IN  IF a = 0 THEN [result |-> "NotFound", store |-> s, value |-> <<>>]
        ELSE IF equity.result # "ok"
        THEN [result |-> equity.result, store |-> s, value |-> <<>>]
        ELSE [result |-> "ok",
              store |-> IF old = {}
                        THEN [s EXCEPT !.dmarks = Append(@, mark)]
                        ELSE [s EXCEPT !.dmarks[Min(old)] = mark],
              value |-> <<mark>>]

(* mark_to_market up to its commit: result, session state, the mark returned *)
MarkToMarketOutcome(s, account_name, quote, day) ==
    LET a == AccountByName(s, account_name)
        equity == compute_equity(s, account_name, quote)
        mark == DailyMark(s.accounts[a].id, day, equity.value, s.accounts[a].cash)
    IN  IF a = 0 THEN [result |-> "NotFound", store |-> s, value |-> <<>>]
        ELSE IF equity.result # "ok"
        THEN [result |-> equity.result, store |-> s, value |-> <<>>]
        ELSE [result |-> "ok", store |-> [s EXCEPT !.dmarks = Append(@, mark)],
              value |-> <<mark>>]

mark_to_market(account_name, quote) ==
    \E out \in {MarkToMarketOutcome(sess, account_name, quote, today)} :
        /\ out.result = "ok" => Len(sess.dmarks) < MaxDailyMarks
        /\ ret' = Return("mark_to_market", out.result, out.value)
        /\ sess' = out.store
        /\ IF out.result = "ok"
           THEN db' = sess' /\ torn' = 0
           ELSE UNCHANGED <<db, torn>>
        /\ UNCHANGED <<today, arg>>

(* db.py get_session / cli.py `with get_session() as s:`: leaving the block *)
(* closes the session; what it had not committed is rolled back.            *)
get_session ==
    /\ sess' = db
    /\ torn' = 0
    /\ ret' = Return("get_session", "ok", <<>>)
    /\ UNCHANGED <<db, today, arg>>

-----------------------------------------------------------------------------
(* benchmark.py *)

BenchSymbols == {"SPY", "QQQ"}
StartValues == {Float(100), Float(5000)}

(* market_data.history(symbol, "10d"): the closes, oldest first; the empty *)
(* frame makes history raise "No history".                                *)
Histories ==
    {<<>>,
     <<Float(100)>>,
     <<Float(100), Float(110)>>,
     <<Float(100), Float(50), Float(100)>>}

MarksOf(s, symbol) == {i \in 1..Len(s.bmarks) : s.bmarks[i].symbol = symbol}

(* select(BenchmarkMark).where(symbol == symbol).order_by(marked_on.desc()) *)
(* .first(): a row of the latest date; SQL leaves the order among rows of   *)
(* one date open, so any of them can come first.                            *)
LatestMarks(s, symbol) ==
    {i \in MarksOf(s, symbol) :
        \A j \in MarksOf(s, symbol) : s.bmarks[j].marked_on <= s.bmarks[i].marked_on}

BenchmarkMark(symbol, day, value) ==
    [symbol |-> symbol, marked_on |-> day, value |-> value]

(* existence checked for the day only *)
InitStoreByDate(s, symbol, start_value, day) ==
    IF \E i \in MarksOf(s, symbol) : s.bmarks[i].marked_on = day
    THEN s
    ELSE [s EXCEPT !.bmarks = Append(@, BenchmarkMark(symbol, day, start_value))]

(* lines 10-23 *)
InitStore(s, symbol, start_value, day) ==
    IF MarksOf(s, symbol) # {}
    THEN s
    ELSE [s EXCEPT !.bmarks = Append(@, BenchmarkMark(symbol, day, start_value))]

init_benchmark(symbol, start_value) ==
    /\ MarksOf(sess, symbol) = {} => Len(sess.bmarks) < MaxMarks
    /\ sess' = InitStore(sess, symbol, start_value, today)
    /\ IF MarksOf(sess, symbol) # {}
       THEN UNCHANGED <<db, torn>>
       ELSE db' = sess' /\ torn' = 0
    /\ ret' = Return("init_benchmark", "ok", <<>>)
    /\ UNCHANGED <<today, arg>>

(* lines 39-40 *)
NewValue(last, df) ==
    LET r == RSub(RDiv(df[Len(df)], df[Len(df) - 1]), Float(1))
    IN  RMul(last.value, RAdd(Float(1), r))

(* the history check left out: one session compounds a zero return *)
MarkOutcomeAlwaysAppends(s, symbol, df, i, day) ==
    LET last == s.bmarks[i]
        bm == BenchmarkMark(symbol, day,
                            IF Len(df) < 2 THEN last.value ELSE NewValue(last, df))
    IN  IF df = <<>>
        THEN [result |-> "NoHistory", store |-> s, value |-> <<>>]
        ELSE [result |-> "ok", store |-> [s EXCEPT !.bmarks = Append(@, bm)],
              value |-> <<bm>>]

(* lines 28-50, with row i the one the query returned first *)
MarkOutcome(s, symbol, df, i, day) ==
    LET last == s.bmarks[i]
        bm == BenchmarkMark(symbol, day, NewValue(last, df))
    IN  IF df = <<>>
        THEN [result |-> "NoHistory", store |-> s, value |-> <<>>]
        ELSE IF Len(df) < 2
        THEN [result |-> "last", store |-> s, value |-> <<last>>]
        ELSE [result |-> "ok", store |-> [s EXCEPT !.bmarks = Append(@, bm)],
              value |-> <<bm>>]

mark_benchmark(symbol, df) ==
    IF MarksOf(sess, symbol) = {}
    THEN /\ ret' = Return("mark_benchmark", "NotInitialized", <<>>)
         /\ UNCHANGED <<sess, db, today, torn, arg>>
    ELSE \E i \in LatestMarks(sess, symbol) :
         \E out \in {MarkOutcome(sess, symbol, df, i, today)} :
            /\ out.result = "ok" => Len(sess.bmarks) < MaxMarks
            /\ ret' = Return("mark_benchmark", out.result, out.value)
            /\ sess' = out.store
            /\ IF out.result = "ok"
               THEN db' = sess' /\ torn' = 0
               ELSE UNCHANGED <<db, torn>>
            /\ UNCHANGED <<today, arg>>

(* date.today() moves on *)
NextDay ==
    /\ today < MaxDay
    /\ today' = today + 1
    /\ UNCHANGED <<sess, db, ret, torn, arg>>

-----------------------------------------------------------------------------
(* screener.py *)

(* a missing close in the frame *)
NaN == [n |-> 0, d |-> 0]

Shapes == {"rising", "falling", "flat", "gap"}

(* market_data.history(symbol, "6mo"): len daily closes, oldest first; the *)
(* "gap" frame has no close on its first day.                             *)
Frame(len, shape) ==
    [i \in 1..len |->
        CASE shape = "rising" -> Float(100 + i)
          [] shape = "falling" -> Float(200 - i)
          [] shape = "gap" -> IF i = 1 THEN NaN ELSE Float(100 + i)
          [] OTHER -> Float(100)]

(* Series.dropna(): the closes that are numbers, in order *)
RECURSIVE DropRange(_, _, _)
DropRange(df, lo, hi) ==
    IF lo > hi THEN <<>>
    ELSE IF lo = hi THEN (IF df[lo] = NaN THEN <<>> ELSE <<df[lo]>>)
    ELSE DropRange(df, lo, (lo + hi) \div 2) \o DropRange(df, (lo + hi) \div 2 + 1, hi)

dropna(df) == DropRange(df, 1, Len(df))

(* Series.iloc[k]: position k from the start, or from the end when k < 0 *)
Position(close, k) == IF k < 0 THEN Len(close) + k + 1 ELSE k + 1
InBounds(close, k) == Position(close, k) \in 1..Len(close)
iloc(close, k) == close[Position(close, k)]

(* sum of close[lo..hi] *)
RECURSIVE Sum(_, _, _)
Sum(close, lo, hi) ==
    IF lo > hi THEN Float(0)
    ELSE IF lo = hi THEN close[lo]
    ELSE RAdd(Sum(close, lo, (lo + hi) \div 2), Sum(close, (lo + hi) \div 2 + 1, hi))

(* close.rolling(window).mean().iloc[-1] *)
rolling_mean(close, window) ==
    RDiv(Sum(close, Len(close) - window + 1, Len(close)), Float(window))

(* the row of a symbol; vol_20d, a standard deviation, is not represented *)
ScoreRow(symbol, close) ==
    LET ret_1m == RSub(RDiv(iloc(close, -1), iloc(close, -Lookback1m)), Float(1))
        ret_3m == RSub(RDiv(iloc(close, -1), iloc(close, -Lookback3m)), Float(1))
        ret_6m == RSub(RDiv(iloc(close, -1), iloc(close, 0)), Float(1))
    IN  [symbol |-> symbol, ret_1m |-> ret_1m, ret_3m |-> ret_3m, ret_6m |-> ret_6m,
         above_sma50 |-> RLt(rolling_mean(close, SmaWindow), iloc(close, -1)),
         score |-> RAdd(ret_3m, ret_1m)]

(* momentum_score on the frame df that history returns for the symbol *)
MomentumScore(symbol, df) ==
    LET close == dropna(df)
    IN  IF df = <<>> THEN [result |-> "NoHistory", value |-> <<>>]
        ELSE IF Len(close) < MinSessions
        THEN [result |-> "InsufficientHistory", value |-> <<>>]
        ELSE IF ~InBounds(close, -Lookback1m) \/ ~InBounds(close, -Lookback3m)
        THEN [result |-> "IndexError", value |-> <<>>]
        ELSE [result |-> "ok", value |-> <<ScoreRow(symbol, close)>>]

momentum_score ==
    \E out \in {MomentumScore(arg.symbol, arg.df)} :
        /\ ret' = Return("momentum_score", out.result, out.value)
        /\ UNCHANGED <<sess, db, today, torn, arg>>

ScoreArgs ==
    {[symbol |-> "AAA", df |-> Frame(len, shape)] :
        len \in 0..MaxSessions, shape \in Shapes}

ScoreInit ==
    /\ sess = EmptyStore
    /\ db = EmptyStore
    /\ today = 0
    /\ ret = Return("none", "none", <<>>)
    /\ torn = 0
    /\ arg \in ScoreArgs

ScoreNext == momentum_score

ScoreSpec == ScoreInit /\ [][ScoreNext]_vars

(* What history returns for each symbol screened: too short (AAA), long    *)
(* enough for the check but not for the 3-month lookback (CCC), none, and  *)
(* full frames, two of them alike.                                         *)
ScreenSymbols == {"AAA", "BBB", "CCC", "DDD", "EEE"}

Markets ==
    {[s \in ScreenSymbols |->
        CASE s = "AAA" -> Frame(MinSessions - 1, "rising")
          [] s = "BBB" -> Frame(MaxSessions, "rising")
          [] s = "CCC" -> Frame(MinSessions + 1, "rising")
          [] s = "DDD" -> Frame(MaxSessions, "falling")
          [] OTHER -> Frame(MaxSessions, "flat")],
     [s \in ScreenSymbols |->
        CASE s = "AAA" -> Frame(MinSessions, "gap")
          [] s = "BBB" -> Frame(MaxSessions, "rising")
          [] s = "CCC" -> Frame(MaxSessions - 1, "rising")
          [] s = "DDD" -> Frame(MaxSessions, "rising")
          [] OTHER -> <<>>]}

(* the loop of screen: the rows of the symbols that scored, in input order *)
RECURSIVE ScoredRows(_, _)
ScoredRows(symbols, frames) ==
    IF symbols = <<>> THEN <<>>
    ELSE LET out == MomentumScore(Head(symbols), frames[Head(symbols)])
         IN  (IF out.result = "ok" THEN out.value ELSE <<>>)
                \o ScoredRows(Tail(symbols), frames)

(* df.sort_values("score", ascending=False): the default sort is not *)
(* stable, rows of equal score come in any order                     *)
sort_values(rows) ==
    {[k \in 1..Len(rows) |-> rows[p[k]]] :
        p \in {q \in [1..Len(rows) -> 1..Len(rows)] :
                /\ \A i, j \in 1..Len(rows) : q[i] = q[j] => i = j
                /\ \A i \in 1..Len(rows) - 1 :
                    ~RLt(rows[q[i]].score, rows[q[i + 1]].score)}}

(* DataFrame.head(n): the first n rows; all but the last -n when n < 0 *)
head(rows, n) ==
    IF n >= 0
    THEN SubSeq(rows, 1, IF n < Len(rows) THEN n ELSE Len(rows))
    ELSE SubSeq(rows, 1, Len(rows) + n)

(* the rows returned in input order, not sorted *)
ScreenKeepsOrder(symbols, top_n, frames) ==
    {head(ScoredRows(symbols, frames), top_n)}

(* the frames screen can return *)
Screen(symbols, top_n, frames) ==
    IF ScoredRows(symbols, frames) = <<>>
    THEN {<<>>}
    ELSE {head(df, top_n) : df \in sort_values(ScoredRows(symbols, frames))}

screen ==
    \E out \in Screen(arg.symbols, arg.top_n, arg.frames) :
        /\ ret' = Return("screen", "ok", out)
        /\ UNCHANGED <<sess, db, today, torn, arg>>

ScreenArgs ==
    [symbols : UNION {[1..n -> ScreenSymbols] : n \in 0..MaxSymbols},
     top_n : 0..MaxTopN,
     frames : Markets]

ScreenInit ==
    /\ sess = EmptyStore
    /\ db = EmptyStore
    /\ today = 0
    /\ ret = Return("none", "none", <<>>)
    /\ torn = 0
    /\ arg \in ScreenArgs

ScreenNext == screen

ScreenSpec == ScreenInit /\ [][ScreenNext]_vars

-----------------------------------------------------------------------------
(* compare.py and ui.py: max_drawdown *)

(* Series.cummax(): the running peak *)
cummax(series) ==
    [i \in 1..Len(series) |->
        CHOOSE v \in {series[j] : j \in 1..i} :
            \A j \in 1..i : ~RLt(v, series[j])]

(* (series / peak) - 1 *)
Drawdowns(series) ==
    [i \in 1..Len(series) |->
        RSub(RDiv(series[i], cummax(series)[i]), Float(1))]

(* Series.min(): the least value; NaN for a series without values *)
SeriesMin(dd) ==
    IF Len(dd) = 0 THEN NaN
    ELSE CHOOSE v \in {dd[i] : i \in 1..Len(dd)} :
            \A i \in 1..Len(dd) : ~RLt(dd[i], v)

(* compare.py *)
max_drawdown(series) == SeriesMin(Drawdowns(series))

(* ui.py *)
ui_max_drawdown(series) ==
    IF Len(Drawdowns(series)) # 0 THEN SeriesMin(Drawdowns(series)) ELSE Float(0)

call_max_drawdown ==
    /\ ret' = Return("max_drawdown", "ok", <<max_drawdown(arg.series)>>)
    /\ UNCHANGED <<sess, db, today, torn, arg>>

call_ui_max_drawdown ==
    /\ ret' = Return("ui.max_drawdown", "ok", <<ui_max_drawdown(arg.series)>>)
    /\ UNCHANGED <<sess, db, today, torn, arg>>

(* equity curves: up to MaxPoints daily values *)
SeriesArgs ==
    [series : UNION {[1..n -> {Float(25), Float(50), Float(100), Float(150)}] :
                        n \in 0..MaxPoints}]

DrawdownInit ==
    /\ sess = EmptyStore
    /\ db = EmptyStore
    /\ today = 0
    /\ ret = Return("none", "none", <<>>)
    /\ torn = 0
    /\ arg \in SeriesArgs

DrawdownNext ==
    \/ call_max_drawdown
    \/ call_ui_max_drawdown

DrawdownSpec == DrawdownInit /\ [][DrawdownNext]_vars

-----------------------------------------------------------------------------

Next ==
    \/ \E name \in Names, cash \in CashArgs : ensure_account(name, cash)
    \/ \E name \in Names, symbol \in Symbols, side \in Sides, qty \in Qtys,
          px \in Quotes \cup {NoQuote} :
            place_market_order(name, symbol, side, qty, px)
    \/ get_session

Spec == Init /\ [][Next]_vars

(* The benchmark tracker over the same session *)
BenchNext ==
    \/ \E symbol \in BenchSymbols, v \in StartValues : init_benchmark(symbol, v)
    \/ \E symbol \in BenchSymbols, df \in Histories : mark_benchmark(symbol, df)
    \/ NextDay
    \/ get_session

BenchSpec == Init /\ [][BenchNext]_vars

(* Two account names, cli.py init, with one-share orders *)
AccountNames == {"core", "risk"}

AccountNext ==
    \/ \E name \in AccountNames, cash \in CashArgs : ensure_account(name, cash)
    \/ \E name \in AccountNames, side \in {"buy", "SELL"} :
            place_market_order(name, "AAA", side, 1, Float(100))
    \/ get_session

AccountSpec == Init /\ [][AccountNext]_vars

(* Daily marks, cli.py mtm, between one-share orders on two symbols *)
MarkNext ==
    \/ \E name \in Names : ensure_account(name, Float(250))
    \/ \E name \in Names, symbol \in MarkSymbols, side \in {"BUY", "SELL"} :
            place_market_order(name, symbol, side, 1, Float(100))
    \/ \E name \in Names, quote \in MarkQuotes : mark_to_market(name, quote)
    \/ NextDay
    \/ get_session

MarkSpec == Init /\ [][MarkNext]_vars

(* Small accounts trading a low-priced share: positive quantities, quotes *)
(* of 0.25 and 1.00 against the commission of 0.50                       *)
SmallCash == {Float(0), Float(1), Float(2)}
LowQuotes == {Rat(1, 4), Float(1)}

CashNext ==
    \/ \E name \in Names, cash \in SmallCash : ensure_account(name, cash)
    \/ \E name \in Names, side \in {"BUY", "SELL"}, qty \in {1, 2, 3}, px \in LowQuotes :
            place_market_order(name, "AAA", side, qty, px)
    \/ get_session

CashSpec == Init /\ [][CashNext]_vars

-----------------------------------------------------------------------------
(* Properties of the trading engine *)

CalledOrder == ret'.op = "place_market_order" /\ today' = today
OrderFilled == CalledOrder /\ ret'.result = "ok"

(* The fill price and the money moved, written from the contract *)
ExpectedFill(px, side) ==
    IF side = "BUY"
    THEN RMul(px, RAdd(Float(1), Rat(slippage_bps, BpsDenominator)))
    ELSE RMul(px, RSub(Float(1), Rat(slippage_bps, BpsDenominator)))

Commission == Rat(CommissionNum, CommissionDen)

AccountById(s, id) == Min({i \in 1..Len(s.accounts) : s.accounts[i].id = id})

NonNegative(x) == ~RLt(x, Float(0))

(* C1: a successful order fills at p*(1 + bps/10000) for BUY and            *)
(* p*(1 - bps/10000) for SELL, moves the account's cash by exactly          *)
(* -(fill*qty + c) for BUY and +(fill*qty - c) for SELL and touches no      *)
(* other account; cash 5000 buying 10 at quote 100 ends with cash 3998.50   *)
(* and one lot (qty 10, avg_cost 100.10).                                   *)
C1_FillAndCash ==
    [][OrderFilled =>
        LET tr == ret'.value[1]
            a == AccountById(sess, tr.account_id)
            fill == ExpectedFill(tr.requested_price, tr.side)
            amount == RMul(fill, Float(tr.qty))
            cash == sess.accounts[a].cash
        IN  /\ tr.fill_price = fill
            /\ sess'.accounts[a].cash =
                 IF tr.side = "BUY"
                 THEN RSub(cash, RAdd(amount, Commission))
                 ELSE RAdd(cash, RSub(amount, Commission))
            /\ Len(sess'.accounts) = Len(sess.accounts)
            /\ \A b \in 1..Len(sess.accounts) : b # a => sess'.accounts[b] = sess.accounts[b]
            /\ (/\ cash = Float(5000) /\ sess.lots = <<>>
                /\ tr.side = "BUY" /\ tr.qty = 10 /\ tr.requested_price = Float(100))
               => /\ tr.fill_price = Rat(10010, 100)
                  /\ sess'.accounts[a].cash = Rat(399850, 100)
                  /\ sess'.lots = <<[account_id |-> tr.account_id, symbol |-> tr.symbol,
                                     qty |-> 10, avg_cost |-> Rat(10010, 100)]>>
    ]_vars

C1_Scenario ==
    /\ ret.op = "place_market_order" /\ ret.result = "ok"
    /\ Len(sess.trades) = 1
    /\ sess.trades[1].side = "BUY" /\ sess.trades[1].qty = 10
    /\ sess.trades[1].requested_price = Float(100)
    /\ sess.accounts[1].cash = Rat(399850, 100)
    /\ Len(sess.lots) = 1 /\ sess.lots[1].qty = 10

(* C2: a BUY whose debit fill*qty + c exceeds the cash fails with           *)
(* InsufficientFunds and changes nothing; a BUY that succeeds on            *)
(* non-negative cash leaves non-negative cash.                              *)
C2_BuyNeverOverdraws ==
    [][CalledOrder =>
        /\ ret'.result # "ok" =>
             \A name \in Names, symbol \in Symbols, side \in Sides, qty \in Qtys,
                px \in Quotes :
                LET a == AccountByName(sess, name)
                    debit == RAdd(RMul(ExpectedFill(px, "BUY"), Float(qty)), Commission)
                IN  (/\ upper(side) = "BUY"
                     /\ a # 0
                     /\ RLt(sess.accounts[a].cash, debit)
                     /\ place_market_order(name, symbol, side, qty, px))
                    => ret'.result = "InsufficientFunds" /\ sess' = sess /\ db' = db
        /\ (ret'.result = "ok" /\ ret'.value[1].side = "BUY") =>
             LET tr == ret'.value[1]
                 a == AccountById(sess, tr.account_id)
                 debit == RAdd(RMul(ExpectedFill(tr.requested_price, "BUY"), Float(tr.qty)),
                               Commission)
             IN  /\ ~RLt(sess.accounts[a].cash, debit)
                 /\ NonNegative(sess.accounts[a].cash) => NonNegative(sess'.accounts[a].cash)
    ]_vars

C2_Refused ==
    /\ ret.op = "place_market_order" /\ ret.result = "InsufficientFunds"
    /\ \A a \in 1..Len(sess.accounts) : NonNegative(sess.accounts[a].cash)

(* C3: every stored PositionLot has quantity strictly greater than zero.    *)
C3_LotsPositive ==
    /\ \A i \in 1..Len(sess.lots) : sess.lots[i].qty > 0
    /\ \A i \in 1..Len(db.lots) : db.lots[i].qty > 0

(* C4: a SELL with no lot or for more than held fails with                  *)
(* InsufficientShares and leaves lots, cash and trade log unchanged; a SELL *)
(* for exactly the held quantity removes the lot; a SELL for less leaves    *)
(* the lot with quantity reduced by the sold amount.                        *)
C4_SellShares ==
    [][CalledOrder =>
        /\ ret'.result # "ok" =>
             \A name \in Names, symbol \in Symbols, side \in Sides, qty \in Qtys,
                px \in Quotes :
                LET a == AccountByName(sess, name)
                    i == LotOf(sess, sess.accounts[a].id, symbol)
                IN  (/\ upper(side) = "SELL"
                     /\ a # 0
                     /\ place_market_order(name, symbol, side, qty, px))
                    => /\ i = 0 \/ sess.lots[i].qty < qty
                       /\ ret'.result = "InsufficientShares"
                       /\ sess' = sess /\ db' = db
        /\ (ret'.result = "ok" /\ ret'.value[1].side = "SELL") =>
             LET tr == ret'.value[1]
                 i == LotOf(sess, tr.account_id, tr.symbol)
                 j == LotOf(sess', tr.account_id, tr.symbol)
             IN  /\ i # 0
                 /\ sess.lots[i].qty >= tr.qty
                 /\ IF sess.lots[i].qty = tr.qty
                    THEN j = 0 /\ Len(sess'.lots) = Len(sess.lots) - 1
                    ELSE /\ j # 0
                         /\ sess'.lots[j].qty = sess.lots[i].qty - tr.qty
                         /\ Len(sess'.lots) = Len(sess.lots)
    ]_vars

C4_PartialSell ==
    /\ ret.op = "place_market_order" /\ ret.result = "ok"
    /\ ret.value[1].side = "SELL" /\ ret.value[1].qty = 1
    /\ Len(sess.lots) = 1 /\ sess.lots[1].qty = 9

(* C5: a failed order leaves cash, lots and trade log as before the call,   *)
(* also for later operations on the same session; a successful one commits  *)
(* the cash change, the lot change and exactly one new Trade together and   *)
(* leaves the earlier trades alone.                                         *)
C5_AllOrNothing ==
    [][CalledOrder =>
        IF ret'.result = "ok"
        THEN /\ db' = sess'
             /\ Len(sess'.trades) = Len(sess.trades) + 1
             /\ SubSeq(sess'.trades, 1, Len(sess.trades)) = sess.trades
        ELSE sess' = sess /\ db' = db
    ]_vars

(* Weighted average of (qty1, cost1) and (qty2, cost2) *)
WeightedAverage(qty1, cost1, qty2, cost2) ==
    Rat(qty1 * cost1.n * cost2.d + qty2 * cost2.n * cost1.d,
        cost1.d * cost2.d * (qty1 + qty2))

SameLot(l, m) == l.account_id = m.account_id /\ l.symbol = m.symbol

(* C6: a BUY of qty2 at cost2 merged into a lot (qty1, cost1) yields        *)
(* quantity qty1+qty2 and average cost (qty1*cost1+qty2*cost2)/(qty1+qty2); *)
(* a BUY with no lot creates one at the fill price; a partial SELL keeps    *)
(* the average cost; nothing else changes a lot's average cost.             *)
C6_AverageCost ==
    [][/\ OrderFilled =>
            LET tr == ret'.value[1]
                i == LotOf(sess, tr.account_id, tr.symbol)
                j == LotOf(sess', tr.account_id, tr.symbol)
            IN  /\ (tr.side = "BUY" /\ i # 0) =>
                     /\ j # 0
                     /\ sess'.lots[j].qty = sess.lots[i].qty + tr.qty
                     /\ sess'.lots[j].avg_cost =
                          WeightedAverage(sess.lots[i].qty, sess.lots[i].avg_cost,
                                          tr.qty, tr.fill_price)
                /\ (tr.side = "BUY" /\ i = 0) =>
                     /\ j # 0
                     /\ sess'.lots[j].qty = tr.qty
                     /\ sess'.lots[j].avg_cost = tr.fill_price
                /\ (tr.side = "SELL" /\ j # 0) =>
                     sess'.lots[j].avg_cost = sess.lots[i].avg_cost
       /\ \A i \in 1..Len(sess.lots), j \in 1..Len(sess'.lots) :
            (SameLot(sess.lots[i], sess'.lots[j])
             /\ sess'.lots[j].avg_cost # sess.lots[i].avg_cost)
            => /\ OrderFilled
               /\ ret'.value[1].side = "BUY"
               /\ ret'.value[1].symbol = sess.lots[i].symbol
               /\ ret'.value[1].account_id = sess.lots[i].account_id
    ]_vars

C6_Merged ==
    /\ ret.op = "place_market_order" /\ ret.result = "ok"
    /\ Len(sess.trades) = 2
    /\ sess.trades[1].side = "BUY" /\ sess.trades[2].side = "BUY"
    /\ sess.trades[1].qty > 0 /\ sess.trades[2].qty > 0
    /\ sess.trades[1].fill_price # sess.trades[2].fill_price
    /\ Len(sess.lots) = 1
    /\ sess.lots[1].qty = sess.trades[1].qty + sess.trades[2].qty
    /\ sess.lots[1].avg_cost # sess.trades[1].fill_price
    /\ sess.lots[1].avg_cost # sess.trades[2].fill_price

UniqueNames(s) ==
    \A a, b \in 1..Len(s.accounts) : s.accounts[a].name = s.accounts[b].name => a = b

(* C7: ensure_account for a name that has an account returns it with its    *)
(* cash unchanged and creates nothing; for a new name it creates one        *)
(* account with the cash given, or the default; there is one account per    *)
(* name, and only orders change an account's cash afterwards.               *)
C7_EnsureIdempotent ==
    [][/\ \A name \in AccountNames, cash \in CashArgs :
            ensure_account(name, cash) =>
                LET a == AccountByName(sess, name)
                IN  IF a # 0
                    THEN /\ sess'.accounts = sess.accounts
                         /\ db'.accounts = db.accounts
                         /\ ret'.value = <<sess.accounts[a]>>
                    ELSE /\ sess'.accounts =
                              Append(sess.accounts,
                                     [id |-> Len(sess.accounts) + 1, name |-> name,
                                      cash |-> IF cash = None
                                               THEN Float(default_cash) ELSE cash])
                         /\ ret'.value = <<sess'.accounts[Len(sess'.accounts)]>>
       /\ UniqueNames(sess') /\ UniqueNames(db')
       /\ \A a \in 1..Len(sess.accounts) :
            /\ a <= Len(sess'.accounts)
            /\ sess'.accounts[a].cash # sess.accounts[a].cash => CalledOrder
    ]_vars

C7_CalledAgain ==
    /\ ret.op = "ensure_account"
    /\ Len(sess.accounts) = 2
    /\ Len(sess.trades) > 0
    /\ ret.value[1].cash # Float(default_cash)
    /\ ret.value[1].cash # Float(150)

-----------------------------------------------------------------------------
(* Properties of the benchmark tracker *)

(* C8: init_benchmark for a symbol that has a mark adds and changes no row; *)
(* for a symbol with none it inserts one mark dated today with start_value. *)
C8_SeedOnce ==
    [][\A symbol \in BenchSymbols, v \in StartValues :
        init_benchmark(symbol, v) =>
            IF \E i \in 1..Len(sess.bmarks) : sess.bmarks[i].symbol = symbol
            THEN sess' = sess /\ db' = db
            ELSE /\ sess'.bmarks =
                      Append(sess.bmarks,
                             [symbol |-> symbol, marked_on |-> today, value |-> v])
                 /\ db' = sess'
    ]_vars

C8_SeededBefore ==
    /\ ret.op = "init_benchmark"
    /\ Len(sess.bmarks) >= 2
    /\ \A i \in 1..Len(sess.bmarks) :
         sess.bmarks[i].symbol = sess.bmarks[1].symbol /\ sess.bmarks[i].marked_on < today

(* The last recorded mark of a symbol: the one appended last *)
LastRecorded(s, symbol) ==
    s.bmarks[CHOOSE i \in MarksOf(s, symbol) : \A j \in MarksOf(s, symbol) : j <= i]

Compounded(value, df) ==
    Rat(value.n * df[Len(df)].n * df[Len(df) - 1].d,
        value.d * df[Len(df)].d * df[Len(df) - 1].n)

(* C9: with two sessions of history mark_benchmark appends one mark dated   *)
(* today whose value is the last recorded mark's value * (1 + return), the  *)
(* most recently appended one when several marks carry the same date.       *)
C9_CompoundsOnLast ==
    [][\A symbol \in BenchSymbols, df \in Histories :
        (MarksOf(sess, symbol) # {} /\ Len(df) >= 2 /\ mark_benchmark(symbol, df))
        => sess'.bmarks =
             Append(sess.bmarks,
                    [symbol |-> symbol, marked_on |-> today,
                     value |-> Compounded(LastRecorded(sess, symbol).value, df)])
    ]_vars

(* C10 as stated: with no prior mark mark_benchmark fails NotInitialized;   *)
(* with fewer than two sessions of history it returns the last mark instead *)
(* of failing; the marks are as before in both cases.                       *)
C10_NoAdvance ==
    [][\A symbol \in BenchSymbols, df \in Histories :
        ((MarksOf(sess, symbol) = {} \/ Len(df) < 2) /\ mark_benchmark(symbol, df))
        => /\ sess' = sess /\ db' = db
           /\ IF MarksOf(sess, symbol) = {}
              THEN ret'.result = "NotInitialized"
              ELSE ret'.result = "last" /\ ret'.value[1] \in {sess.bmarks[i] : i \in LatestMarks(sess, symbol)}
    ]_vars

(* C10 amended: with no prior mark it fails NotInitialized; with exactly    *)
(* one session of history it returns a mark of the latest date; with an     *)
(* empty history the provider's failure propagates; the marks are as before *)
(* in all three cases.                                                      *)
C10_NoAdvanceAmended ==
    [][\A symbol \in BenchSymbols, df \in Histories :
        ((MarksOf(sess, symbol) = {} \/ Len(df) < 2) /\ mark_benchmark(symbol, df))
        => /\ sess' = sess /\ db' = db
           /\ IF MarksOf(sess, symbol) = {}
              THEN ret'.result = "NotInitialized"
              ELSE IF Len(df) = 0
              THEN ret'.result = "NoHistory" /\ ret'.value = <<>>
              ELSE /\ ret'.result = "last"
                   /\ \E i \in 1..Len(sess.bmarks) :
                        /\ ret'.value = <<sess.bmarks[i]>>
                        /\ sess.bmarks[i].symbol = symbol
                        /\ \A j \in 1..Len(sess.bmarks) :
                             sess.bmarks[j].symbol = symbol =>
                               sess.bmarks[j].marked_on <= sess.bmarks[i].marked_on
    ]_vars

C10_ReturnedLast ==
    /\ ret.op = "mark_benchmark" /\ ret.result = "last"
    /\ Len(sess.bmarks) >= 2
    /\ ret.value[1] \in {sess.bmarks[i] : i \in 1..Len(sess.bmarks)}

-----------------------------------------------------------------------------
(* Properties of the daily mark *)

CalledMark == ret'.op = "mark_to_market" /\ today' = today

(* sum over a set of lot rows of quantity times quote *)
RECURSIVE SumValue(_, _, _)
SumValue(s, rows, quote) ==
    IF rows = {} THEN Float(0)
    ELSE LET i == Min(rows)
         IN  RAdd(RMul(Float(s.lots[i].qty), quote[s.lots[i].symbol]),
                  SumValue(s, rows \ {i}, quote))

Priced(s, id, quote) == \A i \in LotsOf(s, id) : quote[s.lots[i].symbol] # NoQuote

(* C11: mark_to_market for an account whose lots all have a quote appends   *)
(* exactly one DailyMark dated today with equity = cash + sum of quantity   *)
(* times quote over the account's lots and cash = the account's cash,       *)
(* returns it, and changes or removes no earlier mark (n calls on a day     *)
(* leave n rows); it changes no account cash, lot or trade; when the        *)
(* account is missing or a lot has no quote it fails and appends no mark.   *)
C11_MarkAppends ==
    [][CalledMark =>
        /\ sess'.accounts = sess.accounts
        /\ sess'.lots = sess.lots
        /\ sess'.trades = sess.trades
        /\ \A name \in Names, quote \in MarkQuotes :
            mark_to_market(name, quote) =>
                LET a == AccountByName(sess, name)
                IN  IF a # 0 /\ Priced(sess, sess.accounts[a].id, quote)
                    THEN /\ ret'.result = "ok"
                         /\ sess'.dmarks = Append(sess.dmarks, ret'.value[1])
                         /\ db'.dmarks = sess'.dmarks
                         /\ ret'.value[1] =
                              [account_id |-> sess.accounts[a].id,
                               marked_on |-> today,
                               equity |-> RAdd(sess.accounts[a].cash,
                                               SumValue(sess,
                                                   LotsOf(sess, sess.accounts[a].id),
                                                   quote)),
                               cash |-> sess.accounts[a].cash]
                    ELSE /\ ret'.result # "ok"
                         /\ sess'.dmarks = sess.dmarks
                         /\ db'.dmarks = db.dmarks]_vars

(* two marks of one account on one day, the later one over two lots *)
C11_MarkedTwice ==
    /\ ret.op = "mark_to_market" /\ ret.result = "ok"
    /\ Len(sess.dmarks) = 2
    /\ sess.dmarks[1].marked_on = sess.dmarks[2].marked_on
    /\ sess.dmarks[1].account_id = sess.dmarks[2].account_id
    /\ Cardinality(LotsOf(sess, sess.dmarks[2].account_id)) = 2
    /\ sess.dmarks[2].equity # sess.dmarks[2].cash

-----------------------------------------------------------------------------
(* Properties of the screener *)

(* C14: momentum_score succeeds, with score = 1-month return + 3-month      *)
(* return (the last close against the closes 21 and 63 positions from the   *)
(* end), for every series of at least 60 closes, and fails for want of      *)
(* history exactly when the series has fewer than 60.                       *)
C14_SixtySessions ==
    ret.op = "momentum_score" =>
        LET close == dropna(arg.df)
            last == close[Len(close)]
        IN  IF Len(close) >= MinSessions
            THEN /\ ret.result = "ok"
                 /\ ret.value[1].score =
                        RAdd(RSub(RDiv(last, close[Len(close) - 20]), Float(1)),
                             RSub(RDiv(last, close[Len(close) - 62]), Float(1)))
            ELSE ret.result \in {"InsufficientHistory", "NoHistory"}

(* momentum_score of each input position *)
Scored == [i \in 1..Len(arg.symbols) |->
            MomentumScore(arg.symbols[i], arg.frames[arg.symbols[i]])]

(* C12: screen never fails; its result holds rows of symbols that scored    *)
(* only, one per scoring input position, ordered by score descending, at    *)
(* most top_n of them and no row left out scores higher than a row kept;    *)
(* it is empty when no symbol scores or the input is empty.                 *)
C12_ScreenSkips ==
    ret.op = "screen" =>
        \E scored \in {Scored} :
        \E scoring \in {{i \in DOMAIN scored : scored[i].result = "ok"}} :
            /\ ret.result = "ok"
            /\ Len(ret.value) = Min({arg.top_n, Cardinality(scoring)})
            /\ \A k \in 1..Len(ret.value) - 1 :
                    ~RLt(ret.value[k].score, ret.value[k + 1].score)
            /\ \E p \in [1..Len(ret.value) -> scoring] :
                    /\ \A i, j \in 1..Len(ret.value) : p[i] = p[j] => i = j
                    /\ \A k \in 1..Len(ret.value) : ret.value[k] = scored[p[k]].value[1]
                    /\ \A i \in scoring \ {p[k] : k \in 1..Len(ret.value)} :
                        \A k \in 1..Len(ret.value) :
                            ~RLt(ret.value[k].score, scored[i].value[1].score)
            /\ scoring = {} => ret.value = <<>>

(* AAA too short is skipped, BBB outscores DDD listed before it, one row kept *)
C12_SkippedSortedCut ==
    /\ ret.op = "screen"
    /\ arg.symbols = <<"AAA", "DDD", "BBB">>
    /\ arg.top_n = 1
    /\ Len(dropna(arg.frames["AAA"])) < MinSessions
    /\ Len(ret.value) = 1
    /\ ret.value[1].symbol = "BBB"
    /\ RLt(Scored[2].value[1].score, ret.value[1].score)

-----------------------------------------------------------------------------
(* Properties of max_drawdown *)

(* value i of the series against the highest value up to i, less one *)
DrawdownAt(series, i) ==
    RSub(RDiv(series[i],
              CHOOSE v \in {series[j] : j \in 1..i} : \A j \in 1..i : ~RLt(v, series[j])),
         Float(1))

(* C13: max_drawdown, in compare.py and in ui.py alike, returns the least   *)
(* of value / running peak - 1 over the series: never positive, 0 for an    *)
(* increasing series, -1/2 for [100, 50], and 0 for the empty series.       *)
C13_Drawdown ==
    ret.op \in {"max_drawdown", "ui.max_drawdown"} =>
        IF arg.series = <<>>
        THEN ret.value[1] = Float(0)
        ELSE /\ \E i \in 1..Len(arg.series) : ret.value[1] = DrawdownAt(arg.series, i)
             /\ \A i \in 1..Len(arg.series) :
                    ~RLt(DrawdownAt(arg.series, i), ret.value[1])
             /\ ~RLt(Float(0), ret.value[1])
             /\ (\A i \in 1..Len(arg.series) - 1 :
                    RLt(arg.series[i], arg.series[i + 1])) => ret.value[1] = Float(0)
             /\ arg.series = <<Float(100), Float(50)>> => ret.value[1] = Rat(-1, 2)

-----------------------------------------------------------------------------
(* Properties of the cash balance *)

CashNonNegative(s) == \A i \in 1..Len(s.accounts) : NonNegative(s.accounts[i].cash)

(* C15 as stated: with accounts created with non-negative cash and orders   *)
(* of positive quantity at non-negative quotes, every account's cash is     *)
(* at least zero in every reachable state.                                  *)
C15_CashNonNegative == CashNonNegative(sess) /\ CashNonNegative(db)

(* C15 amended: an order of positive quantity at a non-negative quote takes *)
(* no account's cash from non-negative to negative, except a filled SELL    *)
(* whose fill * qty is below the commission: it lowers the seller's cash by *)
(* commission - fill * qty.                                                 *)
C15_CashAmended ==
    [][(CalledOrder /\ CashNonNegative(sess)) =>
        IF /\ ret'.result = "ok"
           /\ ret'.value[1].side = "SELL"
           /\ RLt(RMul(ret'.value[1].fill_price, Float(ret'.value[1].qty)), Commission)
        THEN LET tr == ret'.value[1]
                 a == AccountById(sess, tr.account_id)
             IN  /\ sess'.accounts[a].cash =
                        RSub(sess.accounts[a].cash,
                             RSub(Commission, RMul(tr.fill_price, Float(tr.qty))))
                 /\ \A i \in 1..Len(sess.accounts) :
                        i # a => sess'.accounts[i] = sess.accounts[i]
        ELSE CashNonNegative(sess') /\ CashNonNegative(db')]_vars

(* a BUY and a SELL worth more than the commission filled, cash still >= 0 *)
C15_SoldAboveCommission ==
    /\ ret.op = "place_market_order" /\ ret.result = "ok"
    /\ ret.value[1].side = "SELL"
    /\ RLt(Commission, RMul(ret.value[1].fill_price, Float(ret.value[1].qty)))
    /\ Len(sess.trades) = 2
    /\ CashNonNegative(sess)

====
